---- MODULE Spec2Model ----
(***************************************************************************)
(* Model of process_de_laws.py: the conversion of a directory of law XML   *)
(* files into JSON records (process_file), run by a multiprocessing pool   *)
(* (main) and merged afterwards.                                           *)
(*                                                                         *)
(* Text is modelled at character level where the code inspects characters  *)
(* (identifiers, designations, the leading token of a content block): a    *)
(* string is a tuple of one-character strings.  A text that the code only  *)
(* moves around (paragraph content) is the tuple of its whitespace         *)
(* separated words.  A metadata field is the tuple of the XML child        *)
(* elements carrying that tag: empty = the key is absent from the dict,    *)
(* one element = a str, two or more = a list (convert_xml_to_dict).        *)
(***************************************************************************)
EXTENDS Integers, Sequences, FiniteSets, TLC

VARIABLES
    \* ---- the batch (main and the worker pool) ----
    xml,            \* the documents handed out so far, in XML_FILENAMES order
    worker_of,      \* worker_of[f]: the pool process that ran process_file(f)
    all_laws,       \* all_laws[w]: the module global all_laws of process w
    file_keys,      \* file_keys[w]: the module global file_keys of process w
    json_dir,       \* JSON_DIR_PATH: filename -> the dumped per-document result
    raised,         \* filenames whose process_file call raised
    main_pc,        \* position of main: "imap", "raised" or "done"
    all_json,       \* the merged map written to OUTPUT_FILENAME.json
    all_unprocessed,\* all_unprocessed_absatze, by the JSON file each list came from
    \* ---- one document's norm loop, block by block ----
    n_key,          \* key_process of the document being parsed
    n_nodes,        \* the norm nodes visited so far, with the P elements consumed
    n_norms,        \* output['norms']
    n_open,         \* TRUE while a norm node's content loop is running
    n_this,         \* this_norm
    n_st,           \* loop state: p_i, p_is_numbered
    n_unproc,       \* unprocessed_absatze
    \* ---- one file, processed by one program run after another ----
    r_doc,          \* the parsed file
    r_file,         \* its place in XML_FILENAMES
    r_pc,           \* "idle" between runs, "running" in a run
    r_all_laws,     \* all_laws of the process of the current run
    r_file_keys,    \* file_keys of the process of the current run
    r_runs          \* what each run so far has produced

batch_vars ==
    <<xml, worker_of, all_laws, file_keys, json_dir, raised, main_pc, all_json, all_unprocessed>>
norm_vars == <<n_key, n_nodes, n_norms, n_open, n_this, n_st, n_unproc>>
rerun_vars == <<r_doc, r_file, r_pc, r_all_laws, r_file_keys, r_runs>>
vars == <<batch_vars, norm_vars, rerun_vars>>

----------------------------------------------------------------------------
\* Bounds of the model.

\* number of files in XML_DIR_PATH
NumFiles == 3
\* number of norm nodes of the document walked block by block
MaxNodes == 2
\* number of P elements of that document, over all its norms
MaxBlocks == 3
\* number of program runs over the same file
MaxRuns == 2

\* the pool processes (multiprocessing.cpu_count() of them)
Workers == {"w1", "w2"}

\* length of a year suffix
YearLen == 4

----------------------------------------------------------------------------
\* Characters and strings.

Digits == {"0", "1", "2", "3", "4", "5", "6", "7", "8", "9"}

Letters ==
    {"a", "b", "c", "d", "e", "f", "g", "h", "i", "j", "k", "l", "m",
     "n", "o", "p", "q", "r", "s", "t", "u", "v", "w", "x", "y", "z",
     "A", "B", "C", "D", "E", "F", "G", "H", "I", "J", "K", "L", "M",
     "N", "O", "P", "Q", "R", "S", "T", "U", "V", "W", "X", "Y", "Z"}

Whitespace == {" "}

\* str.isdigit(): non-empty and all digits
isdigit(s) == Len(s) > 0 /\ \A i \in 1..Len(s) : s[i] \in Digits

\* s[-n:]
LastN(s, n) == IF Len(s) <= n THEN s ELSE SubSeq(s, Len(s) - n + 1, Len(s))

\* s[:-n]
DropLastN(s, n) == IF Len(s) <= n THEN <<>> ELSE SubSeq(s, 1, Len(s) - n)

RECURSIVE lstrip(_)
lstrip(s) == IF Len(s) > 0 /\ s[1] \in Whitespace THEN lstrip(Tail(s)) ELSE s

RECURSIVE rstrip(_)
rstrip(s) ==
    IF Len(s) > 0 /\ s[Len(s)] \in Whitespace
    THEN rstrip(SubSeq(s, 1, Len(s) - 1))
    ELSE s

\* str.strip()
strip(s) == rstrip(lstrip(s))

\* dict operations
EmptyDict == [k \in {} |-> {}]
Put(d, k, v) == [x \in DOMAIN d \cup {k} |-> IF x = k THEN v ELSE d[x]]
Del(d, k) == [x \in DOMAIN d \ {k} |-> d[x]]

----------------------------------------------------------------------------
\* Numbers and their decimal strings: int(...) and str(...).

DigitChars == <<"0", "1", "2", "3", "4", "5", "6", "7", "8", "9">>

DigitVal(c) == (CHOOSE i \in 1..10 : DigitChars[i] = c) - 1

RECURSIVE int(_)
int(s) == IF Len(s) = 0 THEN 0 ELSE 10 * int(SubSeq(s, 1, Len(s) - 1)) + DigitVal(s[Len(s)])

RECURSIVE str(_)
str(n) == IF n < 10 THEN <<DigitChars[n + 1]>> ELSE str(n \div 10) \o <<DigitChars[(n % 10) + 1]>>

----------------------------------------------------------------------------
\* The regular expressions of process_file.

IsWordChar(c) == c \in Digits \cup Letters \cup {"_"}

\* \b between position i and position i+1 of s (0 and Len(s) are the ends)
WordAt(s, i) == i >= 1 /\ i <= Len(s) /\ IsWordChar(s[i])
Boundary(s, i) == WordAt(s, i) # WordAt(s, i + 1)

\* last position of the run of digits that starts at i
RECURSIVE DigitsEnd(_, _)
DigitsEnd(s, i) == IF i < Len(s) /\ s[i + 1] \in Digits THEN DigitsEnd(s, i + 1) ELSE i

\* \b\d+[a-zA-Z]?\b anchored at i: the end of the match, or 0.  The run of
\* digits is taken whole (a shorter run is followed by a digit, where neither
\* the letter nor \b can match), then the letter is tried before its absence.
NumberEndAt(s, i) ==
    IF ~(i <= Len(s) /\ s[i] \in Digits /\ Boundary(s, i - 1)) THEN 0
    ELSE LET e == DigitsEnd(s, i) IN
         IF e < Len(s) /\ s[e + 1] \in Letters /\ Boundary(s, e + 1) THEN e + 1
         ELSE IF Boundary(s, e) THEN e
         ELSE 0

Leftmost(starts) == CHOOSE j \in starts : \A k \in starts : j <= k

MatchFrom(s, starts) ==
    IF starts = {} THEN <<>> ELSE SubSeq(s, Leftmost(starts), NumberEndAt(s, Leftmost(starts)))

\* re.search(pattern_number, first_part): the leftmost match, <<>> when none
pattern_number(first_part) ==
    MatchFrom(first_part, {i \in 1..Len(first_part) : NumberEndAt(first_part, i) > 0})

\* re.sub(r'\W+', '', number)
RemoveNonWord(s) == SelectSeq(s, IsWordChar)

StartsWith(s, p) == Len(s) >= Len(p) /\ SubSeq(s, 1, Len(p)) = p

\* re.match(pattern_norm, enbez) with pattern_norm = (§+|Art|Artikel)\.?\s*:
\* one of the alternatives has to match at the start; what follows them
\* (\.?\s*) matches the empty string too.
pattern_norm(enbez) ==
    \/ StartsWith(enbez, <<"§">>)
    \/ StartsWith(enbez, <<"A", "r", "t">>)
    \/ StartsWith(enbez, <<"A", "r", "t", "i", "k", "e", "l">>)

----------------------------------------------------------------------------
\* A P element is a tuple of segments [tag, words]: tag "text" is the text
\* directly in the P, any other tag a child element holding those words.

\* the tags decomposed from the copy of P before its leading token is read
StripTags == {"DL", "Revision", "entry_col1"}

RECURSIVE WordsOf(_, _)
WordsOf(P, drop) ==
    IF Len(P) = 0 THEN <<>>
    ELSE (IF P[1].tag \in drop THEN <<>> ELSE P[1].words) \o WordsOf(Tail(P), drop)

\* P_copy.text.split()
P_split(P) == WordsOf(P, StripTags)

\* P.get_text(" ", strip=True) once the SUP elements are extracted
get_text(P) == WordsOf(P, {"SUP"})

RECURSIVE CharCount(_)
CharCount(words) ==
    IF Len(words) = 0 THEN 0
    ELSE Len(words[1]) + (IF Len(words) > 1 THEN 1 ELSE 0) + CharCount(Tail(words))

\* num_tokens_from_string: the cl100k_base encoder is an external library.
\* It is stood in for by a count on the text's length that, like the
\* encoder, is not additive under concatenation.
num_tokens_from_string(words) == (CharCount(words) + 3) \div 4

----------------------------------------------------------------------------
\* The paragraph loop of one norm (process_file, the loop over the P
\* elements).  paragraphs is this_norm['paragraphs'], a tuple of
\* [paragraph_id, token, content].

\* The check for a number already used in this norm: the first paragraph
\* with the same id makes the number one higher (a pure number) or adds "_".
RepairDuplicate(number, paragraphs) ==
    IF \E i \in 1..Len(paragraphs) : paragraphs[i].paragraph_id = number
    THEN IF isdigit(number) THEN str(int(number) + 1) ELSE number \o <<"_">>
    ELSE number

\* NumberFrom with the positional count started at 0
NumberFrom_FromZero(has_text, match, p_i, p_is_numbered, paragraphs) ==
    IF has_text /\ match # <<>>
    THEN [number |-> RepairDuplicate(RemoveNonWord(match), paragraphs),
          number_missing |-> FALSE, p_is_numbered |-> TRUE]
    ELSE IF has_text /\ p_is_numbered
    THEN [number |-> str(p_i - 1), number_missing |-> TRUE, p_is_numbered |-> TRUE]
    ELSE [number |-> str(p_i - 1), number_missing |-> FALSE, p_is_numbered |-> p_is_numbered]

\* The number of a P element whose leading token matched (match) or not
\* (<<>>): [number, number_missing, p_is_numbered], p_i already incremented.
NumberFrom(has_text, match, p_i, p_is_numbered, paragraphs) ==
    IF has_text /\ match # <<>>
    THEN [number |-> RepairDuplicate(RemoveNonWord(match), paragraphs),
          number_missing |-> FALSE, p_is_numbered |-> TRUE]
    ELSE IF has_text /\ p_is_numbered
    THEN [number |-> str(p_i - 1), number_missing |-> TRUE, p_is_numbered |-> TRUE]
    ELSE [number |-> str(p_i), number_missing |-> FALSE, p_is_numbered |-> p_is_numbered]

FirstPart(split) == IF Len(split) = 0 THEN <<>> ELSE pattern_number(split[1])

FindNumber(P, p_i, p_is_numbered, paragraphs) ==
    NumberFrom(Len(P_split(P)) > 0, FirstPart(P_split(P)), p_i, p_is_numbered, paragraphs)

\* The paragraph object of a P element.
p_obj(P, number) ==
    [paragraph_id |-> number,
     token |-> num_tokens_from_string(get_text(P)),
     content |-> get_text(P)]

\* MergeAt with the token count assigned instead of added
MergeAt_TokenAssigned(paragraphs, hits, obj) ==
    IF hits = {} THEN paragraphs
    ELSE [paragraphs EXCEPT ![Leftmost(hits)] =
             [paragraph_id |-> @.paragraph_id,
              token |-> obj.token,
              content |-> @.content \o obj.content]]

MergeAt(paragraphs, hits, obj) ==
    IF hits = {} THEN paragraphs
    ELSE [paragraphs EXCEPT ![Leftmost(hits)] =
             [paragraph_id |-> @.paragraph_id,
              token |-> @.token + obj.token,
              content |-> @.content \o obj.content]]

\* number_missing: the first paragraph of this norm with that id takes the
\* tokens and the content; when there is none, nothing is changed.
MergeIntoPrevious(paragraphs, obj) ==
    MergeAt(paragraphs,
            {i \in 1..Len(paragraphs) : paragraphs[i].paragraph_id = obj.paragraph_id}, obj)

\* HardDuplicates with the test on the norm_id inverted
HardDuplicates_OtherNorms(norms, norm_id, paragraph_id) ==
    SelectSeq(norms,
              LAMBDA norm : /\ norm.norm_id # norm_id
                            /\ \E i \in 1..Len(norm.paragraphs) :
                                  norm.paragraphs[i].paragraph_id = paragraph_id)

\* The norms already in output['norms'] with this norm_id that hold a
\* paragraph with this id: each of them adds one line to unprocessed_absatze.
HardDuplicates(norms, norm_id, paragraph_id) ==
    SelectSeq(norms,
              LAMBDA norm : /\ norm.norm_id = norm_id
                            /\ \E i \in 1..Len(norm.paragraphs) :
                                  norm.paragraphs[i].paragraph_id = paragraph_id)

\* f"{filename} {key_process} {norm_id} {number}"
UnprocessedLine(filename, key_process, norm_id, number) ==
    filename \o <<" ">> \o key_process \o <<" ">> \o norm_id \o <<" ">> \o number

\* The end of the loop body: the paragraph object obj of a P element whose
\* number is n goes into the previous paragraph, to unprocessed_absatze or
\* to the end of this norm's paragraphs.
\* ctx = [filename, key_process, norms, norm_id];
\* s = [p_i, p_is_numbered, paragraphs, unprocessed].
StoreParagraph(ctx, s, n, obj) ==
    [p_i |-> s.p_i + 1,
     p_is_numbered |-> n.p_is_numbered,
     paragraphs |->
        IF n.number_missing THEN MergeIntoPrevious(s.paragraphs, obj)
        ELSE IF Len(HardDuplicates(ctx.norms, ctx.norm_id, obj.paragraph_id)) > 0 THEN s.paragraphs
        ELSE Append(s.paragraphs, obj),
     unprocessed |->
        IF n.number_missing THEN s.unprocessed
        ELSE s.unprocessed
             \o [i \in 1..Len(HardDuplicates(ctx.norms, ctx.norm_id, obj.paragraph_id)) |->
                    UnprocessedLine(ctx.filename, ctx.key_process, ctx.norm_id, n.number)]]

NumberedParagraph(ctx, s, P, n) == StoreParagraph(ctx, s, n, p_obj(P, n.number))

\* One pass of the loop body.
process_P(ctx, s, P) ==
    NumberedParagraph(ctx, s, P, FindNumber(P, s.p_i + 1, s.p_is_numbered, s.paragraphs))

RECURSIVE process_Ps(_, _, _)
process_Ps(ctx, s, Ps) ==
    IF Len(Ps) = 0 THEN s ELSE process_Ps(ctx, process_P(ctx, s, Ps[1]), Tail(Ps))

----------------------------------------------------------------------------
\* A norm node is [enbez, gliederungsbez, Content]: enbez and gliederungsbez
\* are metadata fields (empty when the element is missing), Content is empty
\* or holds the tuple of the P elements directly under textdaten/text/Content.

\* IsNorm without the match of pattern_norm
IsNorm_AnyEnbez(node) == Len(node.enbez) > 0 /\ Len(node.enbez[1]) > 0

\* the test of line 182 on the node's metadata
IsNorm(node) == Len(node.enbez) > 0 /\ Len(node.enbez[1]) > 0 /\ pattern_norm(node.enbez[1])

norm_id_of(node) ==
    IF Len(node.gliederungsbez) > 0 /\ Len(node.gliederungsbez[1]) > 0
    THEN node.gliederungsbez[1] \o <<" ">> \o node.enbez[1]
    ELSE node.enbez[1]

NormCtx(filename, key_process, norms, node) ==
    [filename |-> filename, key_process |-> key_process, norms |-> norms,
     norm_id |-> norm_id_of(node)]

\* the loop state at the start of a norm
NormStart(unprocessed) ==
    [p_i |-> 0, p_is_numbered |-> FALSE, paragraphs |-> <<>>, unprocessed |-> unprocessed]

\* output['norms'].append(this_norm)
PushNorm(out, norm_id, s) ==
    [norms |-> Append(out.norms, [norm_id |-> norm_id, paragraphs |-> s.paragraphs]),
     unprocessed |-> s.unprocessed]

\* The body of the loop over the norm nodes.  out = [norms, unprocessed].
process_norm(filename, key_process, out, node) ==
    IF ~IsNorm(node) THEN out
    ELSE IF Len(node.Content) = 0 THEN PushNorm(out, norm_id_of(node), NormStart(out.unprocessed))
    ELSE PushNorm(out, norm_id_of(node),
                  process_Ps(NormCtx(filename, key_process, out.norms, node),
                             NormStart(out.unprocessed), node.Content[1]))

RECURSIVE process_norms(_, _, _, _)
process_norms(filename, key_process, out, nodes) ==
    IF Len(nodes) = 0 THEN out
    ELSE process_norms(filename, key_process,
                       process_norm(filename, key_process, out, nodes[1]), Tail(nodes))

----------------------------------------------------------------------------
\* The key of a law (process_file, "Get the unique key").  metadaten is
\* [jurabk, amtabk], each a metadata field.

\* metadaten.get('jurabk', metadaten.get('amtabk')): the field; empty is None
JurabkOrAmtabk(metadaten) ==
    IF Len(metadaten.jurabk) > 0 THEN metadaten.jurabk ELSE metadaten.amtabk

\* while isinstance(key_planned, list): key_planned = key_planned[0]
FirstOf(field) == field[1]

remove_year_from_key(key_planned) ==
    IF isdigit(LastN(key_planned, YearLen))
    THEN strip(DropLastN(key_planned, YearLen))
    ELSE key_planned

KeyResult(exc, al, fk, key_process) ==
    [exc |-> exc, all_laws |-> al, file_keys |-> fk, key_process |-> key_process]

\* d[new] = d[old]; del d[old]
Rename(d, old, new) == Del(Put(d, new, d[old]), old)

\* RenamePrevious with the rename of the earlier law left out
RenamePrevious_NoRename(al, fk, filename, key_planned, previous_output_key, corrected_previous_output_key) ==
    KeyResult("", al, Put(fk, key_planned, filename), key_planned)

\* Lines 140-149: the earlier law, registered as previous_output_key, is moved
\* to corrected_previous_output_key when the two differ, and this law takes
\* its key with the year.
RenamePrevious(al, fk, filename, key_planned, previous_output_key, corrected_previous_output_key) ==
    IF corrected_previous_output_key = previous_output_key
    THEN KeyResult("", al, Put(fk, key_planned, filename), key_planned)
    ELSE IF previous_output_key \notin DOMAIN fk
    THEN KeyResult("KeyError", Rename(al, previous_output_key, corrected_previous_output_key),
                   fk, previous_output_key)
    ELSE KeyResult("", Rename(al, previous_output_key, corrected_previous_output_key),
                   Put(Rename(fk, previous_output_key, corrected_previous_output_key),
                       key_planned, filename),
                   key_planned)

\* Lines 133-149 on the globals al, fk of the running process, key_process
\* being the key without its year.  exc names the exception that ends the
\* call, "" when there is none.
Reconcile(al, fk, filename, key_planned, key_process) ==
    IF ~(key_process \in DOMAIN fk \/ key_planned \in DOMAIN fk)
    THEN KeyResult("", al, Put(fk, key_process, filename), key_process)
    ELSE IF key_process \notin DOMAIN al
    THEN \* all_laws[previous_output_key]
         KeyResult("KeyError", al, fk, key_process)
    ELSE IF Len(JurabkOrAmtabk(al[key_process].metadaten)) > 1
    THEN \* all_laws[corrected_previous_output_key] = ...: a list is no dict key
         KeyResult("TypeError", al, fk, key_process)
    ELSE RenamePrevious(al, fk, filename, key_planned, key_process,
                        JurabkOrAmtabk(al[key_process].metadaten)[1])

\* Lines 131-149.
assign_key(al, fk, filename, key_planned) ==
    Reconcile(al, fk, filename, key_planned, remove_year_from_key(key_planned))

\* str(x) of a metadata field: the text itself, or the repr of the list
RECURSIVE ReprItems(_)
ReprItems(field) ==
    IF Len(field) = 0 THEN <<>>
    ELSE <<"'">> \o field[1] \o <<"'">>
         \o (IF Len(field) > 1 THEN <<",", " ">> ELSE <<>>) \o ReprItems(Tail(field))

StrOfField(field) == IF Len(field) = 1 THEN field[1] ELSE <<"[">> \o ReprItems(field) \o <<"]">>

\* remove_year_from_key on a field: a list has no str slice and stays as it is
AltOf(field) == IF Len(field) = 1 THEN <<remove_year_from_key(field[1])>> ELSE field

\* truth value of a field: None, '' and [] are false
Truthy(field) == Len(field) > 0 /\ (Len(field) = 1 => Len(field[1]) > 0)

AltTitleOf(alt_jurabk, alt_amtabk, key_planned) ==
    IF Truthy(alt_jurabk) /\ Truthy(alt_amtabk) /\ alt_jurabk # alt_amtabk
    THEN IF alt_jurabk # <<key_planned>> THEN StrOfField(alt_jurabk) ELSE StrOfField(alt_amtabk)
    ELSE <<>>

\* Lines 151-164.
alt_title(metadaten, key_planned) ==
    AltTitleOf(AltOf(metadaten.jurabk), AltOf(metadaten.amtabk), key_planned)

\* filename.split('.')[0]
RECURSIVE Stem(_)
Stem(filename) ==
    IF Len(filename) = 0 \/ filename[1] = "." THEN <<>> ELSE <<filename[1]>> \o Stem(Tail(filename))

\* The result of a call: the globals after it, the exception that ended it
\* ("" for none), whether the JSON file was written, and what was written.
CallResult(exc, al, fk, dumped, data) ==
    [exc |-> exc, all_laws |-> al, file_keys |-> fk, dumped |-> dumped, data |-> data]

NoData == [key |-> <<>>, output |-> <<>>, unprocessed_absatze |-> <<>>]

\* "Law Finish": lines 313-325
LawFinish(k, output, unprocessed_absatze) ==
    IF Len(k.key_process) > 0
    THEN CallResult("", Put(k.all_laws, k.key_process, output), k.file_keys, TRUE,
                    [key |-> k.key_process, output |-> output,
                     unprocessed_absatze |-> unprocessed_absatze])
    ELSE CallResult("", k.all_laws, k.file_keys, FALSE, NoData)

Output(filename, doc, key_planned, out) ==
    [meta |-> [source |-> filename, alt_title |-> alt_title(doc.metadaten, key_planned)],
     metadaten |-> doc.metadaten,
     norms |-> out.norms]

NormsAndFinish(filename, doc, key_planned, k, out) ==
    LawFinish(k, Output(filename, doc, key_planned, out), out.unprocessed)

\* lines 151-325, k being the outcome of the key assignment
AfterKey(filename, doc, key_planned, k) ==
    IF k.exc # "" THEN CallResult(k.exc, k.all_laws, k.file_keys, FALSE, NoData)
    ELSE NormsAndFinish(filename, doc, key_planned, k,
                        process_norms(filename, k.key_process,
                                      [norms |-> <<>>, unprocessed |-> <<>>], doc.norms))

\* One call process_file(filename) in a process whose globals are al and fk;
\* doc = [metadaten, norms] is the parsed file.
process_file(al, fk, filename, doc) ==
    IF Len(JurabkOrAmtabk(doc.metadaten)) = 0
    THEN \* remove_year_from_key(None): None is not subscriptable
         CallResult("TypeError", al, fk, FALSE, NoData)
    ELSE AfterKey(filename, doc, FirstOf(JurabkOrAmtabk(doc.metadaten)),
                  assign_key(al, fk, filename, FirstOf(JurabkOrAmtabk(doc.metadaten))))

----------------------------------------------------------------------------
\* The inputs: identifiers, documents, norm nodes and P elements.

ABC == <<"A", "B", "C">>
ABC2020 == <<"A", "B", "C", "2", "0", "2", "0">>
ABC2021 == <<"A", "B", "C", "2", "0", "2", "1">>
ABC_2020 == <<"A", "B", "C", " ", "2", "0", "2", "0">>
XY_1999 == <<"X", "Y", " ", "1", "9", "9", "9">>
XY == <<"X", "Y">>
Y2020 == <<"2", "0", "2", "0">>

w_1 == <<"(", "1", ")">>
w_2 == <<"(", "2", ")">>
w_1b == <<"1", "b">>
w_2dot == <<"2", ".">>
w_sup1 == <<"1">>
w_First == <<"F", "i", "r", "s", "t", ".">>
w_Second == <<"S", "e", "c", "o", "n", "d">>
w_sentence == <<"s", "e", "n", "t", "e", "n", "c", "e", ",">>
w_no == <<"n", "o">>
w_leading == <<"l", "e", "a", "d", "i", "n", "g">>
w_number == <<"n", "u", "m", "b", "e", "r", ".">>
w_Third == <<"T", "h", "i", "r", "d", ".">>
w_Satz == <<"S", "a", "t", "z">>

Text(words) == <<[tag |-> "text", words |-> words]>>

P_1_First == Text(<<w_1, w_First>>)
P_Second == Text(<<w_Second, w_sentence, w_no, w_leading, w_number>>)
P_2_Third == Text(<<w_2, w_Third>>)
P_Empty == <<>>
P_1b == Text(<<w_1b, w_Satz>>)
\* a list numbered "2." and a sentence number 1 in front of the text
P_Mixed ==
    <<[tag |-> "DL", words |-> <<w_2dot, w_Satz>>],
      [tag |-> "SUP", words |-> <<w_sup1>>],
      [tag |-> "text", words |-> <<w_Satz>>]>>

PPool == {P_1_First, P_Second, P_2_Third, P_Empty, P_1b, P_Mixed}

e_S3 == <<"§", " ", "3">>
e_Art1 == <<"A", "r", "t", " ", "1">>
e_Inhalt == <<"I", "n", "h", "a", "l", "t", "s", "v", "e", "r", "z", "e", "i", "c", "h", "n", "i", "s">>
g_ArtI == <<"A", "r", "t", " ", "I">>

Node(enbez, gliederungsbez, Content) ==
    [enbez |-> enbez, gliederungsbez |-> gliederungsbez, Content |-> Content]

\* the nodes as they are met, a present Content still without its P elements
NodePool ==
    {Node(<<e_S3>>, <<>>, << <<>> >>),
     Node(<<e_S3>>, <<g_ArtI>>, << <<>> >>),
     Node(<<e_Art1>>, <<>>, <<>>),
     Node(<<e_Inhalt>>, <<>>, << <<>> >>),
     Node(<<>>, <<>>, << <<>> >>)}

\* norm lists of whole documents: one section, and a section given twice
NormsPlain == <<Node(<<e_Inhalt>>, <<>>, << <<P_Second>> >>),
                Node(<<e_S3>>, <<>>, << <<P_1_First, P_Second, P_2_Third>> >>)>>
NormsTwice == <<Node(<<e_S3>>, <<>>, << <<P_1_First>> >>),
                Node(<<e_S3>>, <<>>, << <<P_1_First, P_2_Third>> >>)>>

Doc(jurabk, amtabk, norms) ==
    [metadaten |-> [jurabk |-> jurabk, amtabk |-> amtabk], norms |-> norms]

DocPool ==
    {Doc(<<ABC2020>>, <<>>, NormsTwice),
     Doc(<<ABC2021>>, <<XY>>, NormsPlain),
     Doc(<<ABC>>, <<XY_1999>>, NormsPlain),
     Doc(<<>>, <<ABC_2020>>, NormsPlain),
     Doc(<<ABC2020, XY>>, <<>>, NormsPlain),
     Doc(<<Y2020>>, <<>>, NormsPlain),
     Doc(<<>>, <<>>, NormsPlain)}

\* the names in XML_FILENAMES, in list order
FileName(i) == <<"F">> \o str(i) \o <<".", "x", "m", "l">>

\* the key_process values of the document whose norms are walked
NormKeys == {ABC2020}

----------------------------------------------------------------------------
\* The batch: main hands the files to the pool in list order (imap_unordered,
\* chunksize 1); each pool process runs process_file calls one after another
\* on its own copy of the module globals; main merges the JSON files once
\* every call has returned, or stops with the first exception a call raised.

InitNorm ==
    /\ n_nodes = <<>>
    /\ n_norms = <<>>
    /\ n_open = FALSE
    /\ n_this = [norm_id |-> <<>>, paragraphs |-> <<>>]
    /\ n_st = [p_i |-> 0, p_is_numbered |-> FALSE]
    /\ n_unproc = <<>>

InitBatch ==
    /\ xml = <<>>
    /\ worker_of = <<>>
    /\ all_laws = [w \in Workers |-> EmptyDict]
    /\ file_keys = [w \in Workers |-> EmptyDict]
    /\ json_dir = EmptyDict
    /\ raised = {}
    /\ main_pc = "imap"
    /\ all_json = EmptyDict
    /\ all_unprocessed = EmptyDict

\* no rerun under way
InitRerun ==
    /\ r_doc = Doc(<<ABC>>, <<>>, <<>>)
    /\ r_file = 1
    /\ r_pc = "idle"
    /\ r_all_laws = EmptyDict
    /\ r_file_keys = EmptyDict
    /\ r_runs = <<>>

Init == InitBatch /\ InitNorm /\ InitRerun /\ n_key = ABC

\* the effects of a call, with result r, on the process and the directory
TaskDone(w, filename, doc, r) ==
    /\ xml' = Append(xml, doc)
    /\ worker_of' = Append(worker_of, w)
    /\ all_laws' = [all_laws EXCEPT ![w] = r.all_laws]
    /\ file_keys' = [file_keys EXCEPT ![w] = r.file_keys]
    /\ json_dir' = IF r.dumped THEN Put(json_dir, Stem(filename), r.data) ELSE json_dir
    /\ raised' = IF r.exc # "" THEN raised \cup {filename} ELSE raised

\* pool process w takes the next file and runs process_file on it
pool_task(w, doc) ==
    /\ Len(xml) < NumFiles
    /\ TaskDone(w, FileName(Len(xml) + 1), doc,
                process_file(all_laws[w], file_keys[w], FileName(Len(xml) + 1), doc))
    /\ UNCHANGED <<main_pc, all_json, all_unprocessed, norm_vars, rerun_vars>>

\* the exception of a call comes out of the loop over imap_unordered
main_raise ==
    /\ main_pc = "imap"
    /\ raised # {}
    /\ main_pc' = "raised"
    /\ UNCHANGED <<xml, worker_of, all_laws, file_keys, json_dir, raised, all_json,
                   all_unprocessed, norm_vars, rerun_vars>>

\* "Write to JSON": the files of JSON_DIR_PATH in listing order, a later file
\* replacing an earlier one with the same key
main_merge ==
    /\ main_pc = "imap"
    /\ raised = {}
    /\ Len(xml) = NumFiles
    /\ LET keys == {json_dir[s].key : s \in DOMAIN json_dir} IN
       \E last \in [keys -> DOMAIN json_dir] :
          /\ \A k \in keys : json_dir[last[k]].key = k
          /\ all_json' = [k \in keys |-> json_dir[last[k]].output]
    /\ all_unprocessed' =
          [s \in {t \in DOMAIN json_dir : Len(json_dir[t].unprocessed_absatze) > 0} |->
              json_dir[s].unprocessed_absatze]
    /\ main_pc' = "done"
    /\ UNCHANGED <<xml, worker_of, all_laws, file_keys, json_dir, raised, norm_vars, rerun_vars>>

Next ==
    \/ \E w \in Workers, doc \in DocPool : pool_task(w, doc)
    \/ main_raise
    \/ main_merge

Spec == Init /\ [][Next]_vars

----------------------------------------------------------------------------
\* One document, norm node by norm node and P element by P element: the
\* loops of process_file over soup.find_all('norm') and over the P elements,
\* one pass of a loop body per step.  The document is FileName(1).

InitNormWalk == InitBatch /\ InitNorm /\ InitRerun /\ n_key \in NormKeys

RECURSIVE CountP(_)
CountP(nodes) ==
    IF Len(nodes) = 0 THEN 0
    ELSE (IF Len(nodes[1].Content) = 0 THEN 0 ELSE Len(nodes[1].Content[1])) + CountP(Tail(nodes))

\* the loop state of the open norm, as process_P takes it
OpenState ==
    [p_i |-> n_st.p_i, p_is_numbered |-> n_st.p_is_numbered,
     paragraphs |-> n_this.paragraphs, unprocessed |-> n_unproc]

OpenCtx ==
    [filename |-> FileName(1), key_process |-> n_key, norms |-> n_norms,
     norm_id |-> n_this.norm_id]

\* a node that fails the test of line 182: nothing is done with it
norm_skip(node) ==
    /\ ~n_open
    /\ Len(n_nodes) < MaxNodes
    /\ ~IsNorm(node)
    /\ n_nodes' = Append(n_nodes, node)
    /\ UNCHANGED <<n_key, n_norms, n_open, n_this, n_st, n_unproc, batch_vars, rerun_vars>>

\* a norm without textdaten/text/Content: pushed with no paragraphs
norm_empty(node) ==
    /\ ~n_open
    /\ Len(n_nodes) < MaxNodes
    /\ IsNorm(node)
    /\ Len(node.Content) = 0
    /\ n_nodes' = Append(n_nodes, node)
    /\ n_this' = [norm_id |-> norm_id_of(node), paragraphs |-> <<>>]
    /\ n_norms' = Append(n_norms, n_this')
    /\ UNCHANGED <<n_key, n_open, n_st, n_unproc, batch_vars, rerun_vars>>

\* a norm with Content: this_norm is set up, p_i = 0, p_is_numbered = False
norm_begin(node) ==
    /\ ~n_open
    /\ Len(n_nodes) < MaxNodes
    /\ IsNorm(node)
    /\ Len(node.Content) > 0
    /\ n_nodes' = Append(n_nodes, node)
    /\ n_this' = [norm_id |-> norm_id_of(node), paragraphs |-> <<>>]
    /\ n_st' = [p_i |-> 0, p_is_numbered |-> FALSE]
    /\ n_open' = TRUE
    /\ UNCHANGED <<n_key, n_norms, n_unproc, batch_vars, rerun_vars>>

PDone(P, s) ==
    /\ n_st' = [p_i |-> s.p_i, p_is_numbered |-> s.p_is_numbered]
    /\ n_this' = [n_this EXCEPT !.paragraphs = s.paragraphs]
    /\ n_unproc' = s.unprocessed
    /\ n_nodes' = [n_nodes EXCEPT ![Len(n_nodes)].Content = <<Append(@[1], P)>>]

\* one pass of the loop over the P elements of the open norm
norm_P(P) ==
    /\ n_open
    /\ CountP(n_nodes) < MaxBlocks
    /\ PDone(P, process_P(OpenCtx, OpenState, P))
    /\ UNCHANGED <<n_key, n_norms, n_open, batch_vars, rerun_vars>>

\* the P elements are through: output['norms'].append(this_norm)
norm_end ==
    /\ n_open
    /\ n_norms' = Append(n_norms, n_this)
    /\ n_open' = FALSE
    /\ UNCHANGED <<n_key, n_nodes, n_this, n_st, n_unproc, batch_vars, rerun_vars>>

NextNorm ==
    \/ \E node \in NodePool : norm_skip(node)
    \/ \E node \in NodePool : norm_empty(node)
    \/ \E node \in NodePool : norm_begin(node)
    \/ \E P \in PPool : norm_P(P)
    \/ norm_end

SpecNorm == InitNormWalk /\ [][NextNorm]_vars

\* The walk and process_norms agree: between two norm nodes, the norms and
\* the unprocessed lines are those process_norms gives for the nodes so far.
WalkIsProcessNorms ==
    ~n_open =>
        process_norms(FileName(1), n_key, [norms |-> <<>>, unprocessed |-> <<>>], n_nodes)
            = [norms |-> n_norms, unprocessed |-> n_unproc]

----------------------------------------------------------------------------
\* What the claims speak of, in the batch.

Files == 1..Len(xml)

\* the JSON file of file i was written
Dumped(i) == Stem(FileName(i)) \in DOMAIN json_dir

Result(i) == json_dir[Stem(FileName(i))]

\* the keys under which file i is registered in the process that handled it
RegisteredKeys(i) ==
    {k \in DOMAIN file_keys[worker_of[i]] : file_keys[worker_of[i]][k] = FileName(i)}

\* the keys under which the record of file i is in that process's all_laws
RecordKeys(i) ==
    {k \in DOMAIN all_laws[worker_of[i]] : all_laws[worker_of[i]][k].meta.source = FileName(i)}

\* the document has neither jurabk nor amtabk
NoIdentifier(doc) == doc.metadaten.jurabk = <<>> /\ doc.metadaten.amtabk = <<>>

\* the files that process w has handled
FilesOf(w) == {i \in Files : worker_of[i] = w}

----------------------------------------------------------------------------
\* C1 (as claimed; the code violates it): key uniqueness.  Every document
\* that produced a record is, in the registry and in the output map of the
\* process that handled it, the owner of exactly one key: its record is not
\* overwritten by a later document arriving at the same key.
C1_KeyUniqueness ==
    \A i \in Files :
        Dumped(i) => Cardinality(RecordKeys(i)) = 1 /\ Cardinality(RegisteredKeys(i)) = 1

\* C2: a process that has handled exactly two documents, with the primary
\* identifiers "ABC2020" and "ABC2021", in either order, holds exactly the
\* keys "ABC2020" and "ABC2021" in all_laws and in file_keys, each with the
\* document that carries that identifier, and no key "ABC".
C2_CollisionRename ==
    \A w \in Workers :
        \A i, j \in FilesOf(w) :
            ( /\ FilesOf(w) = {i, j}
              /\ xml[i].metadaten.jurabk = <<ABC2020>>
              /\ xml[j].metadaten.jurabk = <<ABC2021>> )
            => /\ DOMAIN all_laws[w] = {ABC2020, ABC2021}
               /\ DOMAIN file_keys[w] = {ABC2020, ABC2021}
               /\ all_laws[w][ABC2020].meta.source = FileName(i)
               /\ all_laws[w][ABC2021].meta.source = FileName(j)
               /\ file_keys[w][ABC2020] = FileName(i)
               /\ file_keys[w][ABC2021] = FileName(j)

\* C2 witness: one process has handled "ABC2021" first and "ABC2020" second,
\* and nothing else.
C2_Witness ==
    \E w \in Workers : \E i, j \in FilesOf(w) :
        /\ FilesOf(w) = {i, j}
        /\ j < i
        /\ xml[i].metadaten.jurabk = <<ABC2020>>
        /\ xml[j].metadaten.jurabk = <<ABC2021>>

\* C3 (as claimed; the code violates it): the pool processes work on one
\* registry, so a collision between two documents handled by different
\* processes is detected: two documents with different identifiers that
\* strip to the same key never both come out under that same key.
C3_CollisionAcrossWorkers ==
    \A i, j \in Files :
        ( /\ i # j
          /\ worker_of[i] # worker_of[j]
          /\ Dumped(i) /\ Dumped(j)
          /\ FirstOf(JurabkOrAmtabk(xml[i].metadaten)) # FirstOf(JurabkOrAmtabk(xml[j].metadaten)) )
        => Result(i).key # Result(j).key

\* C7 (as claimed; the code violates it): a document without jurabk and
\* amtabk yields no record and no registration, its call raises nothing and
\* main goes on.
C7_Unrecoverable ==
    \A i \in Files :
        NoIdentifier(xml[i])
        => /\ ~Dumped(i)
           /\ RegisteredKeys(i) = {}
           /\ RecordKeys(i) = {}
           /\ FileName(i) \notin raised
           /\ main_pc # "raised"

\* C8 (as claimed; the code violates it): once the batch is through, the key
\* in the result of a document is the key under which its record is
\* registered, also when a later document made the record move to the key
\* with the year.
C8_ResultKeyIsFinal ==
    Len(xml) = NumFiles =>
        \A i \in Files :
            (Dumped(i) /\ RecordKeys(i) # {}) => Result(i).key \in RecordKeys(i)

\* C10 (as claimed; the code violates it): a document with a non-empty
\* jurabk or amtabk, whose call returns, has its record registered under a
\* non-empty key.
C10_IdentifierGivesRecord ==
    \A i \in Files :
        ( /\ Truthy(JurabkOrAmtabk(xml[i].metadaten))
          /\ FileName(i) \notin raised )
        => /\ Dumped(i)
           /\ Len(Result(i).key) > 0

----------------------------------------------------------------------------
\* What the claims speak of, in the walk through one document.

\* the P elements consumed for node k
BlocksOf(k) == IF Len(n_nodes[k].Content) = 0 THEN <<>> ELSE n_nodes[k].Content[1]

\* the first node is a norm and its paragraph list is complete
FirstNormDone == Len(n_nodes) >= 1 /\ IsNorm(n_nodes[1]) /\ Len(n_norms) >= 1

\* the ids and the contents of a paragraph list
IdsOf(paragraphs) == [i \in 1..Len(paragraphs) |-> paragraphs[i].paragraph_id]
ContentsOf(paragraphs) == [i \in 1..Len(paragraphs) |-> paragraphs[i].content]

\* the leading token of the P element carries the number 1
LeadsWithOne(P) == Len(P_split(P)) > 0 /\ pattern_number(P_split(P)[1]) = <<"1">>

\* the token count of the text of a P element
TokensOf(P) == num_tokens_from_string(get_text(P))

DistinctIds(paragraphs) ==
    \A a, b \in 1..Len(paragraphs) :
        a # b => paragraphs[a].paragraph_id # paragraphs[b].paragraph_id

\* a document of one norm with two P elements, both with the leading number 1
TwoOnesInOneNorm ==
    /\ FirstNormDone
    /\ Len(n_nodes) = 1
    /\ Len(BlocksOf(1)) = 2
    /\ LeadsWithOne(BlocksOf(1)[1])
    /\ LeadsWithOne(BlocksOf(1)[2])

\* two norm nodes with the same norm_id, one P element each, both with the
\* leading number 1, both nodes through
TwoOnesInTwoNodes ==
    /\ Len(n_nodes) = 2
    /\ ~n_open
    /\ IsNorm(n_nodes[1]) /\ IsNorm(n_nodes[2])
    /\ norm_id_of(n_nodes[1]) = norm_id_of(n_nodes[2])
    /\ Len(BlocksOf(1)) = 1 /\ LeadsWithOne(BlocksOf(1)[1])
    /\ Len(BlocksOf(2)) = 1 /\ LeadsWithOne(BlocksOf(2)[1])

\* the norm of the continuation example, through
ContinuationExample ==
    /\ FirstNormDone
    /\ BlocksOf(1) = <<P_1_First, P_Second, P_2_Third>>

\* C4 (as claimed; the code violates it): the paragraph ids of a norm are
\* pairwise distinct, whatever P elements it was built from.
C4_UniqueParagraphIds ==
    /\ \A k \in 1..Len(n_norms) : DistinctIds(n_norms[k].paragraphs)
    /\ n_open => DistinctIds(n_this.paragraphs)

\* C5 (as claimed; the code does otherwise): a norm with two P elements that
\* both lead with "(1)" has one paragraph, id "1", made from the first, and
\* one line in unprocessed_absatze for the second.
C5_TrueDuplicateDiversion ==
    TwoOnesInOneNorm =>
        /\ IdsOf(n_norms[1].paragraphs) = << <<"1">> >>
        /\ ContentsOf(n_norms[1].paragraphs) = <<get_text(BlocksOf(1)[1])>>
        /\ Len(n_unproc) = 1

\* C5 amended: in one norm the second "(1)" becomes paragraph "2" and no
\* line is written; a "(1)" of a later norm node with the same norm_id, the
\* earlier norm holding a paragraph "1", is not appended to any paragraph
\* list and gets exactly one line in unprocessed_absatze.
C5_DiversionAcrossNodes ==
    /\ TwoOnesInOneNorm =>
          /\ IdsOf(n_norms[1].paragraphs) = << <<"1">>, <<"2">> >>
          /\ ContentsOf(n_norms[1].paragraphs)
                = <<get_text(BlocksOf(1)[1]), get_text(BlocksOf(1)[2])>>
          /\ n_unproc = <<>>
    /\ TwoOnesInTwoNodes =>
          /\ IdsOf(n_norms[1].paragraphs) = << <<"1">> >>
          /\ ContentsOf(n_norms[1].paragraphs) = <<get_text(BlocksOf(1)[1])>>
          /\ n_norms[2].paragraphs = <<>>
          /\ n_unproc = <<UnprocessedLine(FileName(1), n_key, norm_id_of(n_nodes[2]), <<"1">>)>>

\* C5 witness: the second of two nodes with the same norm_id has had its
\* "(1)" diverted.
C5_Witness == TwoOnesInTwoNodes /\ Len(n_unproc) = 1

\* C6 (as claimed; the code does otherwise): "(1) First.", "Second sentence,
\* no leading number.", "(2) Third." give paragraph "1" with the content
\* "First. Second sentence, no leading number." and paragraph "2" with the
\* content "Third.", the tokens of "1" being those of the first two P
\* elements together.
C6_ContinuationMerge ==
    ContinuationExample =>
        /\ IdsOf(n_norms[1].paragraphs) = << <<"1">>, <<"2">> >>
        /\ ContentsOf(n_norms[1].paragraphs)
              = << <<w_First, w_Second, w_sentence, w_no, w_leading, w_number>>, <<w_Third>> >>
        /\ n_norms[1].paragraphs[1].token = TokensOf(P_1_First) + TokensOf(P_Second)

\* C6 amended: the same, the contents keeping their number markers:
\* "(1) First. Second sentence, no leading number." and "(2) Third.".
C6_MergeKeepsMarkers ==
    ContinuationExample =>
        /\ IdsOf(n_norms[1].paragraphs) = << <<"1">>, <<"2">> >>
        /\ ContentsOf(n_norms[1].paragraphs)
              = << <<w_1, w_First, w_Second, w_sentence, w_no, w_leading, w_number>>,
                   <<w_2, w_Third>> >>
        /\ n_norms[1].paragraphs[1].token = TokensOf(P_1_First) + TokensOf(P_Second)
        /\ n_norms[1].paragraphs[2].token = TokensOf(P_2_Third)

\* C6 witness: the norm of the example is through.
C6_Witness == ContinuationExample /\ ~n_open

\* the designation of a section or an article: it starts with § or with Art
SectionDesignation(node) ==
    /\ node.enbez # <<>>
    /\ \/ Len(node.enbez[1]) >= 1 /\ node.enbez[1][1] = "§"
       \/ /\ Len(node.enbez[1]) >= 3
          /\ node.enbez[1][1] = "A" /\ node.enbez[1][2] = "r" /\ node.enbez[1][3] = "t"

EndsWith(s, t) == Len(s) >= Len(t) /\ SubSeq(s, Len(s) - Len(t) + 1, Len(s)) = t

\* the norms made so far, the one whose P elements are being read included
NormsSoFar == IF n_open THEN Append(n_norms, n_this) ELSE n_norms

\* C9: the norms of the record are, in document order, one for each node
\* whose enbez starts with § or Art; a node with another enbez
\* ("Inhaltsverzeichnis") or without one gives no norm.
C9_NodeFiltering ==
    /\ Len(NormsSoFar) = Len(SelectSeq(n_nodes, SectionDesignation))
    /\ \A k \in 1..Len(NormsSoFar) :
          EndsWith(NormsSoFar[k].norm_id, SelectSeq(n_nodes, SectionDesignation)[k].enbez[1])

\* C9 witness: "Inhaltsverzeichnis" and then "§ 3" have been visited, and the
\* record holds the one norm "§ 3".
C9_Witness ==
    /\ Len(n_nodes) = 2
    /\ ~n_open
    /\ n_nodes[1].enbez = <<e_Inhalt>>
    /\ n_nodes[2].enbez = <<e_S3>>
    /\ Len(n_norms) = 1

----------------------------------------------------------------------------
\* One pass of the P loop, seen as a step of the walk.

\* the step reads one P element of the open norm
BlockStep == n_open /\ n_open' /\ n_nodes' # n_nodes

\* the P element a block step has read
BlockRead == BlocksOf(Len(n_nodes))'[Len(BlocksOf(Len(n_nodes))')]

\* the number the loop body gives that P element
NumberRead == FindNumber(BlockRead, n_st.p_i + 1, n_st.p_is_numbered, n_this.paragraphs)

\* a paragraph with this id stands in this norm or in an earlier norm with
\* the same norm_id
SameIdPresent(paragraph_id) ==
    \/ \E i \in 1..Len(n_this.paragraphs) : n_this.paragraphs[i].paragraph_id = paragraph_id
    \/ \E k \in 1..Len(n_norms) :
          /\ n_norms[k].norm_id = n_this.norm_id
          /\ \E i \in 1..Len(n_norms[k].paragraphs) :
                n_norms[k].paragraphs[i].paragraph_id = paragraph_id

\* C11 (as claimed; the code violates it): a P element that is no
\* continuation is diverted exactly when a paragraph with its final id is
\* already there for the same norm_id; a diverted one adds exactly one line
\* "<filename> <key> <norm_id> <paragraph_id>" at the end of
\* unprocessed_absatze and leaves the norm's paragraphs alone, any other is
\* appended to the paragraphs and adds no line.
C11_OneLinePerDivertedBlock ==
    [][ (BlockStep /\ ~NumberRead.number_missing) =>
           IF SameIdPresent(NumberRead.number)
           THEN /\ n_this' = n_this
                /\ n_unproc' = Append(n_unproc,
                                      UnprocessedLine(FileName(1), n_key, n_this.norm_id,
                                                      NumberRead.number))
           ELSE /\ n_unproc' = n_unproc
                /\ n_this'.paragraphs
                      = Append(n_this.paragraphs, p_obj(BlockRead, NumberRead.number)) ]_vars

----------------------------------------------------------------------------
\* the document has one jurabk and one amtabk, different once their years
\* are removed
TwoIdentifiers(doc) ==
    /\ Len(doc.metadaten.jurabk) = 1 /\ Len(doc.metadaten.jurabk[1]) > 0
    /\ Len(doc.metadaten.amtabk) = 1 /\ Len(doc.metadaten.amtabk[1]) > 0
    /\ remove_year_from_key(doc.metadaten.jurabk[1])
          # remove_year_from_key(doc.metadaten.amtabk[1])

\* C12 (as claimed; the code violates it): the key of a document with a
\* jurabk and an amtabk that differ is taken from the jurabk, and its
\* meta.alt_title is the identifier not chosen, the amtabk (as it stands or
\* without its year), whether or not the identifiers end with a year.
C12_AltTitleIsTheOther ==
    \A i \in Files :
        (Dumped(i) /\ TwoIdentifiers(xml[i]))
        => Result(i).output.meta.alt_title
              \in {xml[i].metadaten.amtabk[1],
                   remove_year_from_key(xml[i].metadaten.amtabk[1])}

----------------------------------------------------------------------------
\* The program run again and again over one unchanged file: every run is a
\* new process, whose module globals are set up by lines 36-38, and which
\* calls process_file on the file and ends.

\* ModuleGlobals that hands on what the earlier process held
ModuleGlobals_Kept(al, fk) == [all_laws |-> al, file_keys |-> fk]

\* all_laws and file_keys of a process that starts, al and fk being those of
\* the process before it
ModuleGlobals(al, fk) == [all_laws |-> EmptyDict, file_keys |-> EmptyDict]

\* the files a rerun is tried on
RerunDocs ==
    DocPool \cup {Doc(j, a, n) : j \in {<<>>, <<ABC>>, <<ABC2020>>},
                                 a \in {<<>>, <<XY>>, <<XY_1999>>},
                                 n \in {NormsPlain, NormsTwice}}

InitRerunWalk ==
    /\ InitBatch /\ InitNorm /\ n_key = ABC
    /\ r_doc \in RerunDocs
    /\ r_file \in 1..NumFiles
    /\ r_pc = "idle"
    /\ r_all_laws = EmptyDict
    /\ r_file_keys = EmptyDict
    /\ r_runs = <<>>

\* a run starts
rerun_start ==
    /\ r_pc = "idle"
    /\ Len(r_runs) < MaxRuns
    /\ r_pc' = "running"
    /\ r_all_laws' = ModuleGlobals(r_all_laws, r_file_keys).all_laws
    /\ r_file_keys' = ModuleGlobals(r_all_laws, r_file_keys).file_keys
    /\ UNCHANGED <<r_doc, r_file, r_runs, batch_vars, norm_vars>>

RerunDone(r) ==
    /\ r_all_laws' = r.all_laws
    /\ r_file_keys' = r.file_keys
    /\ r_runs' = Append(r_runs, [exc |-> r.exc, dumped |-> r.dumped, data |-> r.data])

\* the run calls process_file on the file and ends
rerun_process ==
    /\ r_pc = "running"
    /\ RerunDone(process_file(r_all_laws, r_file_keys, FileName(r_file), r_doc))
    /\ r_pc' = "idle"
    /\ UNCHANGED <<r_doc, r_file, batch_vars, norm_vars>>

NextRerun ==
    \/ rerun_start
    \/ rerun_process

SpecRerun == InitRerunWalk /\ [][NextRerun]_vars

----------------------------------------------------------------------------
\* the P element has no number in its leading token
NoLeadingNumber(P) == Len(P_split(P)) = 0 \/ pattern_number(P_split(P)[1]) = <<>>

\* paragraphs with the text and the tokens of P added to the last of them
WithContinuation(paragraphs, P) ==
    [paragraphs EXCEPT ![Len(paragraphs)] =
        [paragraph_id |-> @.paragraph_id,
         token |-> @.token + TokensOf(P),
         content |-> @.content \o get_text(P)]]

\* C14 (as claimed; the code violates it): in a norm in which an earlier P
\* element had a leading number and which has a paragraph, a P element
\* without a leading number makes no new paragraph: its text and its tokens
\* go to the paragraph immediately before it, the last of the norm.
C14_ContinuationGoesToLast ==
    [][ ( /\ BlockStep
          /\ n_st.p_is_numbered
          /\ Len(n_this.paragraphs) > 0
          /\ NoLeadingNumber(BlockRead) )
        => /\ n_this'.paragraphs = WithContinuation(n_this.paragraphs, BlockRead)
           /\ n_unproc' = n_unproc ]_vars

----------------------------------------------------------------------------
\* One call of process_file, seen as a step of the batch.

\* the step is a call of process_file
CallStep == Len(xml') = Len(xml) + 1

\* the file, the document and the process of that call
CallFile == FileName(Len(xml) + 1)
CallDoc == xml'[Len(xml) + 1]
CallWorker == worker_of'[Len(xml) + 1]

\* the identifier of the document of the call, as it stands and without year
CallKeyPlanned == FirstOf(JurabkOrAmtabk(CallDoc.metadaten))
CallKeyProcess == remove_year_from_key(CallKeyPlanned)

\* the call meets a registry that holds its key, with or without the year
CallCollides ==
    /\ CallStep
    /\ Len(JurabkOrAmtabk(CallDoc.metadaten)) > 0
    /\ \/ CallKeyProcess \in DOMAIN file_keys[CallWorker]
       \/ CallKeyPlanned \in DOMAIN file_keys[CallWorker]

\* C15 (as claimed; the code violates it): a call that finds its key, with
\* or without the year, in the registry raises nothing: the earlier entry is
\* in all_laws under the key looked up, and after the call the file is
\* registered.
C15_CollisionNeverRaises ==
    [][ CallCollides =>
           /\ raised' = raised
           /\ CallKeyProcess \in DOMAIN all_laws[CallWorker]
           /\ \E k \in DOMAIN file_keys'[CallWorker] : file_keys'[CallWorker][k] = CallFile ]_vars

----------------------------------------------------------------------------
\* the identifier of the law registered as CallKeyProcess, as lines 116-119
\* took it from its metadata
PriorIdentifier ==
    FirstOf(JurabkOrAmtabk(all_laws[CallWorker][CallKeyProcess].metadaten))

\* the call collides with an earlier law that is registered under another
\* key than its identifier, and does not itself carry that identifier
RenameDue ==
    /\ CallCollides
    /\ CallKeyProcess \in DOMAIN all_laws[CallWorker]
    /\ CallKeyProcess \in DOMAIN file_keys[CallWorker]
    /\ PriorIdentifier # CallKeyProcess
    /\ PriorIdentifier # CallKeyPlanned

\* d2 is d1 with the entry at old moved to new, but for the key own, which
\* the law of the call takes
Moved(d1, d2, old, new, own) ==
    /\ new \in DOMAIN d2 /\ d2[new] = d1[old]
    /\ old \in DOMAIN d2 => (old = own /\ d2[old] # d1[old])
    /\ \A k \in DOMAIN d1 \ {old, new, own} : k \in DOMAIN d2 /\ d2[k] = d1[k]

\* C16 (as claimed; the code violates it): when a rename is due, the call
\* leaves the earlier law's record and its filename under the law's
\* identifier and no longer under the old key, in all_laws and in
\* file_keys, the record and all other entries being as before.
C16_RenameMovesThePrior ==
    [][ RenameDue =>
           /\ Moved(all_laws[CallWorker], all_laws'[CallWorker],
                    CallKeyProcess, PriorIdentifier, CallKeyPlanned)
           /\ Moved(file_keys[CallWorker], file_keys'[CallWorker],
                    CallKeyProcess, PriorIdentifier, CallKeyPlanned) ]_vars

----------------------------------------------------------------------------
\* A process that handles a list of documents one after another.

\* the globals of a process after process_file on docs[pos], docs[pos+1], ...
\* docs[i] being the file FileName(i)
RECURSIVE RunFrom(_, _, _, _)
RunFrom(al, fk, docs, pos) ==
    IF pos > Len(docs) THEN [all_laws |-> al, file_keys |-> fk]
    ELSE RunFrom(process_file(al, fk, FileName(pos), docs[pos]).all_laws,
                 process_file(al, fk, FileName(pos), docs[pos]).file_keys,
                 docs, pos + 1)

\* the keys of the registry fk with the identifiers of the documents that
\* hold them
KeysByIdentifier(fk, docs) ==
    {<<FirstOf(JurabkOrAmtabk(docs[p[1]].metadaten)), p[2]>> :
        p \in {q \in (1..Len(docs)) \X (DOMAIN fk) :
                  /\ Len(JurabkOrAmtabk(docs[q[1]].metadaten)) > 0
                  /\ fk[q[2]] = FileName(q[1])}}

\* the documents process w has handled, in the order of the calls, their
\* norms left aside
DocsOf(w) ==
    [i \in 1..Cardinality(FilesOf(w)) |->
        Doc(xml[CHOOSE f \in FilesOf(w) : Cardinality({g \in FilesOf(w) : g <= f}) = i]
               .metadaten.jurabk,
            xml[CHOOSE f \in FilesOf(w) : Cardinality({g \in FilesOf(w) : g <= f}) = i]
               .metadaten.amtabk,
            <<>>)]

\* the orders in which n documents can be handled
Orders(n) == {f \in [1..n -> 1..n] : \A a, b \in 1..n : a # b => f[a] # f[b]}

\* every document has exactly one identifier, and no two have the same
DistinctIdentifiers(docs) ==
    /\ \A i \in 1..Len(docs) : Len(JurabkOrAmtabk(docs[i].metadaten)) = 1
    /\ \A i, j \in 1..Len(docs) :
          i # j => JurabkOrAmtabk(docs[i].metadaten) # JurabkOrAmtabk(docs[j].metadaten)

\* C17 (as claimed; the code violates it): the keys that the documents of a
\* process end up with, their identifiers being pairwise distinct, are the
\* same for every order in which the process could have handled them.
C17_OrderIndependence ==
    \A w \in Workers :
        DistinctIdentifiers(DocsOf(w)) =>
            \A f \in Orders(Len(DocsOf(w))) :
                KeysByIdentifier(RunFrom(EmptyDict, EmptyDict,
                                         [i \in 1..Len(DocsOf(w)) |-> DocsOf(w)[f[i]]], 1).file_keys,
                                 [i \in 1..Len(DocsOf(w)) |-> DocsOf(w)[f[i]]])
                    = {<<FirstOf(JurabkOrAmtabk(xml[p[1]].metadaten)), p[2]>> :
                          p \in {q \in FilesOf(w) \X (DOMAIN file_keys[w]) :
                                    q[2] \in RegisteredKeys(q[1])}}

----------------------------------------------------------------------------
\* what a block step can do with the P element it reads

\* it is the new last paragraph of the norm
BlockAppended ==
    /\ Len(n_this'.paragraphs) = Len(n_this.paragraphs) + 1
    /\ SubSeq(n_this'.paragraphs, 1, Len(n_this.paragraphs)) = n_this.paragraphs
    /\ n_this'.paragraphs[Len(n_this'.paragraphs)].content = get_text(BlockRead)
    /\ n_unproc' = n_unproc

\* its text is added to one paragraph of the norm
BlockMerged ==
    /\ Len(n_this'.paragraphs) = Len(n_this.paragraphs)
    /\ \E i \in 1..Len(n_this.paragraphs) :
          /\ n_this'.paragraphs[i].content = n_this.paragraphs[i].content \o get_text(BlockRead)
          /\ \A j \in 1..Len(n_this.paragraphs) \ {i} :
                n_this'.paragraphs[j] = n_this.paragraphs[j]
    /\ n_unproc' = n_unproc

\* it is named by one new line of unprocessed_absatze
BlockReported ==
    /\ n_this'.paragraphs = n_this.paragraphs
    /\ Len(n_unproc') = Len(n_unproc) + 1
    /\ SubSeq(n_unproc', 1, Len(n_unproc)) = n_unproc

\* C18 (as claimed; the code violates it): no P element of a norm is lost.
\* Each one with text becomes a paragraph of its own, or goes into a
\* paragraph of the norm, or gets one line in unprocessed_absatze.
C18_NoBlockLost ==
    [][ (BlockStep /\ Len(get_text(BlockRead)) > 0)
        => (BlockAppended \/ BlockMerged \/ BlockReported) ]_vars

----------------------------------------------------------------------------
\* C19 (as claimed; the code violates it): between the calls of a process,
\* its file_keys and its all_laws have the same keys, and the file
\* registered for a key is the source of the record under that key.
C19_RegistryMatchesOutputMap ==
    \A w \in Workers :
        /\ DOMAIN file_keys[w] = DOMAIN all_laws[w]
        /\ \A k \in DOMAIN file_keys[w] \cap DOMAIN all_laws[w] :
              file_keys[w][k] = all_laws[w][k].meta.source

----------------------------------------------------------------------------
\* the norm nodes visited, and the P elements read of the k-th of them
NormNodes == SelectSeq(n_nodes, SectionDesignation)
NormBlocks(k) == IF Len(NormNodes[k].Content) = 0 THEN <<>> ELSE NormNodes[k].Content[1]

\* the k-th norm has a norm_id that no norm before it has, and none of its
\* P elements has a leading number
PlainNorm(k) ==
    /\ k <= Len(NormNodes)
    /\ \A j \in 1..(k - 1) : NormsSoFar[j].norm_id # NormsSoFar[k].norm_id
    /\ \A b \in 1..Len(NormBlocks(k)) : NoLeadingNumber(NormBlocks(k)[b])

\* C20: in a norm with a norm_id not seen before and without a leading
\* number in any of its P elements, every P element read is a paragraph of
\* its own, and the paragraph ids are "1", "2", ... in document order,
\* whatever the norms before it held: p_i and p_is_numbered start anew with
\* every norm.
C20_PositionalNumbering ==
    \A k \in 1..Len(NormsSoFar) :
        PlainNorm(k) =>
            /\ IdsOf(NormsSoFar[k].paragraphs) = [i \in 1..Len(NormBlocks(k)) |-> str(i)]
            /\ ContentsOf(NormsSoFar[k].paragraphs)
                  = [i \in 1..Len(NormBlocks(k)) |-> get_text(NormBlocks(k)[i])]

\* C20 witness: after a norm with a numbered P element, a norm with another
\* norm_id and two P elements without a number is through.
C20_Witness ==
    /\ Len(n_norms) = 2
    /\ ~n_open
    /\ Len(NormNodes) = 2
    /\ Len(NormBlocks(1)) = 1 /\ ~NoLeadingNumber(NormBlocks(1)[1])
    /\ PlainNorm(2)
    /\ Len(NormBlocks(2)) = 2

====
